---- MODULE Spec2Model ----
(***************************************************************************)
(* PPC Master Blaster (src/app.py): one audit run over an uploaded Google  *)
(* Ads keyword export.  The run is the body of the try block: read the     *)
(* table, drop keyword-less rows, normalise the raw cells, evaluate the    *)
(* rules row by row, sort the findings and render the report.              *)
(*                                                                         *)
(* Text is a sequence of one-character strings.  A cell of the table is a  *)
(* record: Str(s) for text, Num(n) for a number, NaN for a blank cell.     *)
(* Numbers are whole numbers (no decimal point occurs in the cells drawn). *)
(***************************************************************************)
EXTENDS Integers, Sequences, FiniteSets, TLC

VARIABLES
    df,                 \* the table read from the upload: columns and rows
    cpa_threshold,      \* sidebar: Max Acceptable CPA
    min_impr,           \* sidebar: Min Impressions for Significance
    brand_name,         \* sidebar: Your Brand Name
    competitor_names,   \* sidebar: Competitor Names (comma separated)
    df_clean,           \* rows with a keyword, cells normalised
    competitors,        \* the parsed competitor list
    findings,           \* the findings appended so far
    results_df,         \* the sorted result table
    row_i,              \* position of the row loop in df_clean
    pc,                 \* position of the run
    screen,             \* the widgets emitted so far, in order
    raw_value,          \* a raw field value handed to the normalizers
    normalized          \* what each normalizer returned for raw_value

vars == <<df, cpa_threshold, min_impr, brand_name, competitor_names, df_clean,
          competitors, findings, results_df, row_i, pc, screen, raw_value, normalized>>

runVars == <<df, cpa_threshold, min_impr, brand_name, competitor_names, df_clean,
             competitors, findings, results_df, row_i, pc, screen>>

-----------------------------------------------------------------------------
(* Values *)

Num(n) == [k |-> "num", n |-> n, s |-> <<>>]

Str(s) == [k |-> "str", n |-> 0, s |-> s]

NaN == [k |-> "nan", n |-> 0, s |-> <<>>]

\* float() raising ValueError
ValueError == [k |-> "err", n |-> 0, s |-> <<>>]

\* x < n, x > n, x == n on a cell value: every comparison with NaN is False
Lt(v, n) == v.k = "num" /\ v.n < n

Gt(v, n) == v.k = "num" /\ v.n > n

Eq(v, n) == v.k = "num" /\ v.n = n

-----------------------------------------------------------------------------
(* Text *)

Upper == <<"A", "B", "C", "D", "E", "F", "G", "H", "I", "J", "K", "L", "M",
           "N", "O", "P", "Q", "R", "S", "T", "U", "V", "W", "X", "Y", "Z">>

Lowers == <<"a", "b", "c", "d", "e", "f", "g", "h", "i", "j", "k", "l", "m",
            "n", "o", "p", "q", "r", "s", "t", "u", "v", "w", "x", "y", "z">>

LowerChar(c) ==
    IF \E j \in 1..Len(Upper) : Upper[j] = c
    THEN Lowers[CHOOSE j \in 1..Len(Upper) : Upper[j] = c]
    ELSE c

\* str.lower()
Lower(s) == [j \in 1..Len(s) |-> LowerChar(s[j])]

\* sub in s
Contains(sub, s) ==
    \E j \in 0..(Len(s) - Len(sub)) : SubSeq(s, j + 1, j + Len(sub)) = sub

RECURSIVE LStrip(_)
LStrip(s) == IF s # <<>> /\ Head(s) = " " THEN LStrip(Tail(s)) ELSE s

RECURSIVE RStrip(_)
RStrip(s) ==
    IF s # <<>> /\ s[Len(s)] = " " THEN RStrip(SubSeq(s, 1, Len(s) - 1)) ELSE s

\* str.strip()
Strip(s) == RStrip(LStrip(s))

\* str.replace(old, ''): every non-overlapping occurrence, left to right
RECURSIVE Remove(_, _)
Remove(s, old) ==
    IF Len(s) < Len(old) THEN s
    ELSE IF SubSeq(s, 1, Len(old)) = old
         THEN Remove(SubSeq(s, Len(old) + 1, Len(s)), old)
         ELSE <<Head(s)>> \o Remove(Tail(s), old)

\* str.split(sep) for a one-character separator: empty pieces are kept
RECURSIVE Split(_, _)
Split(s, sep) ==
    IF \A j \in 1..Len(s) : s[j] # sep THEN <<s>>
    ELSE LET p == CHOOSE j \in 1..Len(s) : s[j] = sep /\ \A m \in 1..(j - 1) : s[m] # sep
         IN  <<SubSeq(s, 1, p - 1)>> \o Split(SubSeq(s, p + 1, Len(s)), sep)

Digits == {"0", "1", "2", "3", "4", "5", "6", "7", "8", "9"}

DigitVal(c) ==
    CASE c = "0" -> 0 [] c = "1" -> 1 [] c = "2" -> 2 [] c = "3" -> 3 [] c = "4" -> 4
      [] c = "5" -> 5 [] c = "6" -> 6 [] c = "7" -> 7 [] c = "8" -> 8 [] c = "9" -> 9

RECURSIVE DecVal(_)
DecVal(s) == IF s = <<>> THEN 0 ELSE 10 * DecVal(SubSeq(s, 1, Len(s) - 1)) + DigitVal(s[Len(s)])

\* float(s): surrounding blanks ignored, an optional sign, then digits;
\* anything else raises ValueError.  (The decimal point, exponents, digit
\* grouping with "_" and the words inf and nan, which float() also reads,
\* cannot be written with the characters of the cells drawn below.)
PyFloat(s) ==
    LET t == Strip(s)
        signed == t # <<>> /\ Head(t) \in {"+", "-"}
        d == IF signed THEN Tail(t) ELSE t
    IN  IF d # <<>> /\ \A j \in 1..Len(d) : d[j] \in Digits
        THEN Num(IF signed /\ Head(t) = "-" THEN 0 - DecVal(d) ELSE DecVal(d))
        ELSE ValueError

-----------------------------------------------------------------------------
(* Helper functions *)

clean_currency(v) ==
    IF v.k = "str"
    THEN PyFloat(Strip(Remove(Remove(Remove(v.s, <<",">>), <<"A", "U", "D">>), <<"$">>)))
    ELSE v

clean_percent(v) ==
    IF v.k = "str"
    THEN IF Contains(<<"-", "-">>, v.s) THEN Num(0)
         ELSE PyFloat(Strip(Remove(v.s, <<"%">>)))
    ELSE v

clean_number(v) ==
    IF v.k = "str"
    THEN IF Contains(<<"-", "-">>, v.s) THEN Num(0)
         ELSE PyFloat(Strip(Remove(v.s, <<",">>)))
    ELSE v

\* the placeholder read as a score of 0
clean_qs_zero(v) ==
    IF v.k = "str"
    THEN IF Contains(<<"-", "-">>, v.s) THEN Num(0)
         ELSE PyFloat(Split(v.s, "/")[1])
    ELSE v

clean_qs(v) ==
    IF v.k = "str"
    THEN IF Contains(<<"-", "-">>, v.s) THEN NaN
         ELSE PyFloat(Split(v.s, "/")[1])
    ELSE v

-----------------------------------------------------------------------------
(* The table *)

RequiredColumns ==
    {"Keyword", "Match type", "Cost", "Conversions", "Impr.", "CTR", "Quality Score"}

AllColumns == RequiredColumns \cup {"Ad group"}

\* cols_map, in the order the loop over it cleans the columns
cols_map == <<"Cost", "Conversions", "Impr.", "CTR", "Quality Score">>

CleanFunc(col, v) ==
    CASE col = "Cost" -> clean_currency(v)
      [] col = "Conversions" -> clean_number(v)
      [] col = "Impr." -> clean_number(v)
      [] col = "CTR" -> clean_percent(v)
      [] col = "Quality Score" -> clean_qs(v)

\* the filter left out
KeywordRowsUnfiltered(rows) == rows

\* df[df['Keyword'].notna()]
KeywordRows(rows) == SelectSeq(rows, LAMBDA r : r["Keyword"].k # "nan")

\* df_clean[col] = df_clean[col].apply(func)
ApplyColumn(rows, col) ==
    [j \in 1..Len(rows) |-> [rows[j] EXCEPT ![col] = CleanFunc(col, @)]]

\* the cleaning loop from cols_map[j] on: a column the table lacks is skipped,
\* a cell float() rejects ends the loop with the exception
RECURSIVE CleanFrom(_, _, _)
CleanFrom(rows, columns, j) ==
    IF j > Len(cols_map) THEN [rows |-> rows, raised |-> FALSE]
    ELSE IF cols_map[j] \notin columns THEN CleanFrom(rows, columns, j + 1)
    ELSE LET applied == ApplyColumn(rows, cols_map[j])
         IN  IF \E m \in 1..Len(applied) : applied[m][cols_map[j]] = ValueError
             THEN [rows |-> rows, raised |-> TRUE]
             ELSE CleanFrom(applied, columns, j + 1)

\* the list without its "if c.strip()" filter
ParseCompetitorsKeepBlank(names) ==
    LET pieces == Split(names, ",")
    IN  [j \in 1..Len(pieces) |-> Lower(Strip(pieces[j]))]

\* [c.strip().lower() for c in competitor_names.split(',') if c.strip()]
ParseCompetitors(names) ==
    LET pieces == Split(names, ",")
        kept == SelectSeq(pieces, LAMBDA c : Strip(c) # <<>>)
    IN  [j \in 1..Len(kept) |-> Lower(Strip(kept[j]))]

\* str(value) of a text or blank cell
PyStr(v) == IF v.k = "nan" THEN <<"n", "a", "n">> ELSE v.s

-----------------------------------------------------------------------------
(* Logic engine: the rules of one row *)

\* the columns the row loop reads with row[...] before the first rule
RowReads == {"Keyword", "Match type", "Cost", "Conversions", "Quality Score", "Impr.", "CTR"}

Kw(row) == Lower(PyStr(row["Keyword"]))

AdGroupOf(row) == IF "Ad group" \in DOMAIN row THEN row["Ad group"] ELSE Str(<<"U", "n", "k", "n", "o", "w", "n">>)

Finding(priority, issue, row, metric, fix) ==
    [Priority |-> priority, Issue |-> issue, AdGroup |-> AdGroupOf(row),
     Keyword |-> row["Keyword"], Metric |-> metric, TheFix |-> fix]

\* 1. CASH INCINERATOR
CashIncinerator(row) ==
    Eq(row["Conversions"], 0) /\ Gt(row["Cost"], cpa_threshold)

\* 2. BRAND DEFENSE
BrandDefense(row) ==
    /\ brand_name # <<>>
    /\ Contains(Lower(brand_name), Kw(row))
    /\ \/ Lt(row["Quality Score"], 8) /\ Gt(row["Impr."], 20)
       \/ Lt(row["CTR"], 5) /\ Gt(row["Impr."], 20)

\* 3. COMPETITOR WASTE: cost > cpa_threshold * 0.5
CompetitorWaste(row) ==
    /\ \E j \in 1..Len(competitors) : Contains(competitors[j], Kw(row))
    /\ Eq(row["Conversions"], 0)
    /\ row["Cost"].k = "num" /\ 2 * row["Cost"].n > cpa_threshold

\* 4. BROAD MATCH TRAP
BroadMatchTrap(row) ==
    /\ Contains(<<"b", "r", "o", "a", "d">>, Lower(PyStr(row["Match type"])))
    /\ Gt(row["Cost"], 0)

\* 5. QUALITY SCORE ANCHOR
QualityScoreAnchor(row) ==
    Lt(row["Quality Score"], 3) /\ Gt(row["Impr."], min_impr)

\* the findings one pass of the loop body appends, in rule order
RowFindings(row) ==
    (IF CashIncinerator(row)
     THEN <<Finding("HIGH", "Cash Incinerator", row,
                    <<"Spend", row["Cost"], "0 Leads">>, "PAUSE immediately.")>>
     ELSE <<>>)
    \o
    (IF BrandDefense(row)
     THEN <<Finding("HIGH", "Brand Defense Leak", row,
                    <<"QS", row["Quality Score"], "CTR", row["CTR"]>>,
                    "Competitors may be stealing traffic. Improve Ad Copy.")>>
     ELSE <<>>)
    \o
    (IF CompetitorWaste(row)
     THEN <<Finding("MED", "Competitor Ego Waste", row,
                    <<"Spend", row["Cost"], "0 Leads">>,
                    "Stop bidding on competitors. It's too expensive.")>>
     ELSE <<>>)
    \o
    (IF BroadMatchTrap(row)
     THEN <<Finding("HIGH", "Broad Match Trap", row, <<"Broad Match">>,
                    "Change to Phrase Match.")>>
     ELSE <<>>)
    \o
    (IF QualityScoreAnchor(row)
     THEN <<Finding("HIGH", "Quality Score Anchor", row,
                    <<"QS", row["Quality Score"]>>, "Pause or New Ad Group.")>>
     ELSE <<>>)

-----------------------------------------------------------------------------
(* Display results *)

\* priority_map; a priority it lacks maps to NaN, which sort_values puts last
priority_map(p) ==
    CASE p = "HIGH" -> 1
      [] p = "MED" -> 2
      [] p = "LOW" -> 3
      [] OTHER -> 4

\* pd.DataFrame(findings): the findings with the default index
DataFrame(fs) == [j \in 1..Len(fs) |-> [index |-> j, f |-> fs[j]]]

RECURSIVE Orderings(_)
Orderings(S) ==
    IF S = {} THEN {<<>>}
    ELSE UNION {{<<e>> \o t : t \in Orderings(S \ {e})} : e \in S}

\* a sort that also drops the later findings of a keyword
SortValuesDropDuplicates(frame) ==
    LET first == SelectSeq(frame, LAMBDA r :
                     \A q \in 1..Len(frame) :
                         frame[q].f.Keyword = r.f.Keyword => q >= r.index)
        Rank(r) == {j \in 1..Len(first) : priority_map(first[j].f.Priority) = r}
    IN  {[j \in 1..Len(first) |-> first[(a \o b \o c \o d)[j]]] :
            a \in Orderings(Rank(1)), b \in Orderings(Rank(2)),
            c \in Orderings(Rank(3)), d \in Orderings(Rank(4))}

\* results_df.sort_values('SortKey'): the default kind is quicksort, which
\* orders the keys and promises nothing about rows with equal keys, so every
\* arrangement of the rows within one key is a possible result
SortValues(frame) ==
    LET Rank(r) == {j \in 1..Len(frame) : priority_map(frame[j].f.Priority) = r}
    IN  {[j \in 1..Len(frame) |-> frame[(a \o b \o c \o d)[j]]] :
            a \in Orderings(Rank(1)), b \in Orderings(Rank(2)),
            c \in Orderings(Rank(3)), d \in Orderings(Rank(4))}

\* generate_excel: worksheet.write of a NaN cell raises TypeError; otherwise
\* the sheet holds one styled line per row of the frame
generate_excel(frame) ==
    IF \E j \in 1..Len(frame) : frame[j].f.AdGroup.k = "nan" \/ frame[j].f.Keyword.k = "nan"
    THEN [raised |-> TRUE, sheet |-> <<>>]
    ELSE [raised |-> FALSE,
          sheet |-> [j \in 1..Len(frame) |->
                        IF frame[j].f.Priority = "HIGH" THEN "high_fmt"
                        ELSE IF frame[j].f.Priority = "MED" THEN "med_fmt"
                        ELSE "normal_fmt"]]

-----------------------------------------------------------------------------
(* The run *)

ReportParts ==
    {"metric_spend", "metric_issues", "chart_issues", "chart_incinerators",
     "info_no_incinerators", "preview", "download"}

\* except Exception as e: st.error(...)
Raise ==
    /\ screen' = Append(screen, "error")
    /\ pc' = "done"

\* df = pd.read_csv(...); df_clean = df[df['Keyword'].notna()].copy()
ReadCsv ==
    /\ pc = "start"
    /\ IF "Keyword" \notin df.columns
       THEN /\ Raise
            /\ UNCHANGED df_clean
       ELSE /\ df_clean' = KeywordRows(df.rows)
            /\ pc' = "clean"
            /\ UNCHANGED screen
    /\ UNCHANGED <<df, cpa_threshold, min_impr, brand_name, competitor_names,
                   competitors, findings, results_df, row_i, raw_value, normalized>>

\* the cleaning loop, then findings = [] and the competitors list
CleanCols ==
    /\ pc = "clean"
    /\ LET done == CleanFrom(df_clean, df.columns, 1)
       IN  /\ df_clean' = done.rows
           /\ IF done.raised
              THEN /\ Raise
                   /\ UNCHANGED <<findings, competitors, row_i>>
              ELSE /\ findings' = <<>>
                   /\ competitors' = ParseCompetitors(competitor_names)
                   /\ row_i' = 1
                   /\ pc' = "loop"
                   /\ UNCHANGED screen
    /\ UNCHANGED <<df, cpa_threshold, min_impr, brand_name, competitor_names,
                   results_df, raw_value, normalized>>

\* one pass of the body of: for index, row in df_clean.iterrows()
EvalRow ==
    /\ pc = "loop"
    /\ row_i <= Len(df_clean)
    /\ IF \E c \in RowReads : c \notin df.columns
       THEN /\ Raise
            /\ UNCHANGED <<findings, row_i>>
       ELSE /\ findings' = findings \o RowFindings(df_clean[row_i])
            /\ row_i' = row_i + 1
            /\ UNCHANGED <<pc, screen>>
    /\ UNCHANGED <<df, cpa_threshold, min_impr, brand_name, competitor_names,
                   df_clean, competitors, results_df, raw_value, normalized>>

\* if findings: results_df = pd.DataFrame(findings), reordered and sorted
SortResults ==
    /\ pc = "loop"
    /\ row_i > Len(df_clean)
    /\ findings # <<>>
    /\ results_df' \in SortValues(DataFrame(findings))
    /\ pc' = "dashboard"
    /\ UNCHANGED <<df, cpa_threshold, min_impr, brand_name, competitor_names,
                   df_clean, competitors, findings, row_i, screen, raw_value, normalized>>

\* else: st.success("No critical issues found!")
NoIssues ==
    /\ pc = "loop"
    /\ row_i > Len(df_clean)
    /\ findings = <<>>
    /\ screen' = Append(screen, "success")
    /\ pc' = "done"
    /\ UNCHANGED <<df, cpa_threshold, min_impr, brand_name, competitor_names,
                   df_clean, competitors, findings, results_df, row_i, raw_value, normalized>>

\* the metrics and the two charts
Dashboard ==
    /\ pc = "dashboard"
    /\ screen' = screen \o <<"metric_spend", "metric_issues", "chart_issues",
                             IF \E j \in 1..Len(results_df) :
                                    results_df[j].f.Issue = "Cash Incinerator"
                             THEN "chart_incinerators"
                             ELSE "info_no_incinerators">>
    /\ pc' = "preview"
    /\ UNCHANGED <<df, cpa_threshold, min_impr, brand_name, competitor_names,
                   df_clean, competitors, findings, results_df, row_i, raw_value, normalized>>

\* st.dataframe(results_df.head(10))
Preview ==
    /\ pc = "preview"
    /\ screen' = Append(screen, "preview")
    /\ pc' = "export"
    /\ UNCHANGED <<df, cpa_threshold, min_impr, brand_name, competitor_names,
                   df_clean, competitors, findings, results_df, row_i, raw_value, normalized>>

\* excel_data = generate_excel(results_df); st.download_button(...)
Export ==
    /\ pc = "export"
    /\ IF generate_excel(results_df).raised
       THEN Raise
       ELSE /\ screen' = Append(screen, "download")
            /\ pc' = "done"
    /\ UNCHANGED <<df, cpa_threshold, min_impr, brand_name, competitor_names,
                   df_clean, competitors, findings, results_df, row_i, raw_value, normalized>>

Next ==
    \/ ReadCsv
    \/ CleanCols
    \/ EvalRow
    \/ SortResults
    \/ NoIssues
    \/ Dashboard
    \/ Preview
    \/ Export

-----------------------------------------------------------------------------
(* Inputs *)

MaxRows == 2

MaxNamesLen == 2

MaxLen == 3

kwAb == Str(<<"A", "b">>)

kwC == Str(<<"c">>)

adG == Str(<<"g">>)

mtBroad == Str(<<"B", "r", "o", "a", "d">>)

mtExact == Str(<<"E", "x", "a", "c", "t">>)

RECURSIVE SeqsUpTo(_, _)
SeqsUpTo(S, n) ==
    IF n = 0 THEN {<<>>}
    ELSE LET shorter == SeqsUpTo(S, n - 1)
         IN  shorter \cup {Append(t, e) : t \in {u \in shorter : Len(u) = n - 1}, e \in S}

\* a row of the table: one cell per column
Row(kw, ag, mt, cost, conv, impr, ctr, qs) ==
    [c \in AllColumns |->
        CASE c = "Keyword" -> kw
          [] c = "Ad group" -> ag
          [] c = "Match type" -> mt
          [] c = "Cost" -> cost
          [] c = "Conversions" -> conv
          [] c = "Impr." -> impr
          [] c = "CTR" -> ctr
          [] c = "Quality Score" -> qs]

\* a table with the columns cols and the given rows
Table(cols, rows) ==
    [columns |-> cols, rows |-> [j \in 1..Len(rows) |-> [c \in cols |-> rows[j][c]]]]

\* the table with every column, or lacking any one column
ColumnSets == {AllColumns} \cup {AllColumns \ {c} : c \in AllColumns}

\* rows of an export whose data columns are all text: some rows lack the
\* keyword or the ad group, one cost is not a number
RunRows ==
    {Row(kw, ag, mtExact, cost, Str(<<"-", "-">>), Str(<<"1", ",", "0", "0", "0">>),
         Str(<<"2", "%">>), Str(<<"7", "/", "1", "0">>)) :
        kw \in {NaN, kwAb}, ag \in {NaN, adG},
        cost \in {Str(<<"$", "4", "0">>), Str(<<"$", "2", "0">>), Str(<<"n", "/", "a">>)}}

\* single rows, every combination of the cells that decide a rule
RuleRows ==
    {Row(kw, adG, mt, cost, conv, impr, ctr, qs) :
        kw \in {kwAb, kwC}, mt \in {mtBroad, mtExact},
        cost \in {Str(<<"$", "4", "0">>), Num(20), Num(0)},
        conv \in {Str(<<"-", "-">>), Num(1)},
        impr \in {Num(20), Num(30), Num(60), Str(<<"1", ",", "0", "0", "0">>)},
        ctr \in {Str(<<"-", "-">>), Str(<<"2", "%">>), Num(5)},
        qs \in {Str(<<"-", "-">>), Str(<<"2", "/", "1", "0">>), Str(<<"7", "/", "1", "0">>), Num(8)}}

InitRun(tables, brands, names) ==
    /\ df \in tables
    /\ cpa_threshold = 30
    /\ min_impr = 50
    /\ brand_name \in brands
    /\ competitor_names \in names
    /\ df_clean = <<>>
    /\ competitors = <<>>
    /\ findings = <<>>
    /\ results_df = <<>>
    /\ row_i = 0
    /\ pc = "start"
    /\ screen = <<>>
    /\ raw_value = NaN
    /\ normalized = <<>>

\* whole runs over tables of up to MaxRows rows
Init ==
    InitRun({Table(cols, rows) : cols \in ColumnSets, rows \in SeqsUpTo(RunRows, MaxRows)},
            {<<>>}, {<<>>, <<"b">>})

Spec == Init /\ [][Next]_vars

\* runs over one row, every sidebar text
InitRules ==
    InitRun({Table(AllColumns, <<r>>) : r \in RuleRows},
            {<<>>, <<"a", "B">>}, SeqsUpTo({",", " ", "B"}, MaxNamesLen))

SpecRules == InitRules /\ [][Next]_vars

-----------------------------------------------------------------------------
(* The normalizers on their own *)

NormAlphabet == {"-", "%", ",", "/", "$", " ", "1", "7"}

InitNorm ==
    /\ raw_value \in {NaN, Num(0), Num(7)}
                       \cup {Str(t) : t \in SeqsUpTo(NormAlphabet, MaxLen)}
    /\ normalized = <<>>
    /\ df = Table(AllColumns, <<>>)
    /\ cpa_threshold = 30
    /\ min_impr = 50
    /\ brand_name = <<>>
    /\ competitor_names = <<>>
    /\ df_clean = <<>>
    /\ competitors = <<>>
    /\ findings = <<>>
    /\ results_df = <<>>
    /\ row_i = 0
    /\ pc = "normalize"
    /\ screen = <<>>

Normalize ==
    /\ pc = "normalize"
    /\ normalized = <<>>
    /\ normalized' = [currency |-> clean_currency(raw_value),
                      percent |-> clean_percent(raw_value),
                      number |-> clean_number(raw_value),
                      qs |-> clean_qs(raw_value)]
    /\ UNCHANGED <<runVars, raw_value>>

SpecNorm == InitNorm /\ [][Normalize]_vars

-----------------------------------------------------------------------------
(* Properties *)

Placeholder == Str(<<"-", "-">>)

Emitted(w) == \E j \in 1..Len(screen) : screen[j] = w

\* a step of the row loop that evaluated the rules of df_clean[row_i]
RowEvaluated == pc = "loop" /\ row_i <= Len(df_clean) /\ row_i' = row_i + 1

\* the findings that step appended
Appended == SubSeq(findings', Len(findings) + 1, Len(findings'))

IssuesOf(fs) == [j \in 1..Len(fs) |-> fs[j].Issue]

\* the row of the upload that df_clean[j] was normalised from
RawRow(j) == SelectSeq(df.rows, LAMBDA r : r["Keyword"].k # "nan")[j]

\* C1: a row whose raw quality score is the placeholder '--' gets neither a
\* Quality Score Anchor nor a Brand Defense Leak finding, whatever the brand
\* name, the CTR and the impressions are.
C1_MissingQsNeverFlagged ==
    [][(RowEvaluated /\ RawRow(row_i)["Quality Score"] = Placeholder)
            => \A j \in 1..Len(Appended) :
                   Appended[j].Issue \notin {"Quality Score Anchor", "Brand Defense Leak"}]_vars

\* the rule table of the specification, on a normalised row
CanonCash(row) == Eq(row["Conversions"], 0) /\ Gt(row["Cost"], cpa_threshold)

CanonBrand(row) ==
    /\ brand_name # <<>>
    /\ Contains(Lower(brand_name), Lower(row["Keyword"].s))
    /\ row["Quality Score"].k # "nan"
    /\ \/ Lt(row["Quality Score"], 8) /\ Gt(row["Impr."], 20)
       \/ Lt(row["CTR"], 5) /\ Gt(row["Impr."], 20)

CanonCompetitor(row) ==
    /\ \E c \in {Lower(Strip(t)) : t \in {Split(competitor_names, ",")[j] :
                                            j \in 1..Len(Split(competitor_names, ","))}} :
           c # <<>> /\ Contains(c, Lower(row["Keyword"].s))
    /\ Eq(row["Conversions"], 0)
    /\ row["Cost"].k = "num" /\ 2 * row["Cost"].n > cpa_threshold

CanonBroad(row) ==
    Contains(<<"b", "r", "o", "a", "d">>, Lower(row["Match type"].s)) /\ Gt(row["Cost"], 0)

CanonAnchor(row) == Lt(row["Quality Score"], 3) /\ Gt(row["Impr."], min_impr)

CanonRepellent(row) == Lt(row["CTR"], 1) /\ Gt(row["Impr."], 2 * min_impr)

CanonIssues(row) ==
    (IF CanonCash(row) THEN <<"Cash Incinerator">> ELSE <<>>)
    \o (IF CanonBrand(row) THEN <<"Brand Defense Leak">> ELSE <<>>)
    \o (IF CanonCompetitor(row) THEN <<"Competitor Ego Waste">> ELSE <<>>)
    \o (IF CanonBroad(row) THEN <<"Broad Match Trap">> ELSE <<>>)
    \o (IF CanonAnchor(row) THEN <<"Quality Score Anchor">> ELSE <<>>)
    \o (IF CanonRepellent(row) THEN <<"Click Repellent">> ELSE <<>>)

\* C2: the findings appended for a row are exactly one per canonical rule the
\* row satisfies (Cash Incinerator, Brand Defense Leak, Competitor Ego Waste,
\* Broad Match Trap, Quality Score Anchor, Click Repellent), in rule order.
C2_OneFindingPerSatisfiedRule ==
    [][RowEvaluated => IssuesOf(Appended) = CanonIssues(df_clean[row_i])]_vars

\* C3: a row with ctr < 1.0 and impressions > 2 * min_impressions gets a
\* Click Repellent finding of priority MED.
C3_ClickRepellentFires ==
    [][(RowEvaluated /\ CanonRepellent(df_clean[row_i]))
            => \E j \in 1..Len(Appended) :
                   Appended[j].Issue = "Click Repellent" /\ Appended[j].Priority = "MED"]_vars

\* C4: a run that shows the error message has emitted no part of the report.
C4_AllOrNothing ==
    Emitted("error") => \A w \in ReportParts : ~Emitted(w)

\* C5: a table lacking a required column ends in the error outcome: no
\* success message, no finding, no row evaluated.
C5_MissingColumnIsFatal ==
    (pc = "done" /\ ~(RequiredColumns \subseteq df.columns))
        => screen = <<"error">> /\ findings = <<>> /\ row_i <= 1

\* C6: two findings of equal priority keep, in the sorted table, the order
\* they had in the findings list.
C6_SortIsStable ==
    \A a, b \in 1..Len(results_df) :
        (a < b /\ results_df[a].f.Priority = results_df[b].f.Priority)
            => results_df[a].index < results_df[b].index

AllKeywordsMissing ==
    /\ RequiredColumns \subseteq df.columns
    /\ \A j \in 1..Len(df.rows) : df.rows[j]["Keyword"] = NaN

\* C7: a table with every required column whose rows all lack the keyword
\* never shows the error, produces no finding and ends with the success
\* message.
C7_AllKeywordsMissingSucceeds ==
    AllKeywordsMissing
        => /\ ~Emitted("error")
           /\ findings = <<>>
           /\ pc = "done" => screen = <<"success">>

C7_Witness ==
    /\ AllKeywordsMissing
    /\ Len(df.rows) >= 2
    /\ \E j \in 1..Len(df.rows) : df.rows[j]["Cost"] = Str(<<"$", "4", "0">>)
    /\ pc = "done"
    /\ screen = <<"success">>

\* C8: the placeholder '--' normalises to 0 as a percentage and as a count
\* and to the missing value as a quality score, which is no number; a value
\* that is not text is returned as it is by every normalizer.
C8_PlaceholderByFieldKind ==
    normalized # <<>>
        => /\ raw_value = Placeholder
                => /\ normalized.percent = Num(0)
                   /\ normalized.number = Num(0)
                   /\ normalized.qs = NaN
                   /\ normalized.qs.k # "num"
           /\ raw_value.k # "str"
                => /\ normalized.currency = raw_value
                   /\ normalized.percent = raw_value
                   /\ normalized.number = raw_value
                   /\ normalized.qs = raw_value

C8_Witness == normalized # <<>> /\ raw_value = Placeholder /\ normalized.qs = NaN

Sorted == pc \in {"dashboard", "preview", "export"} \/ (pc = "done" /\ results_df # <<>>)

\* C9: the sorted table holds every finding exactly once and its priority
\* ranks never decrease.
C9_SortedIsPermutation ==
    Sorted
        => /\ Len(results_df) = Len(findings)
           /\ \A j \in 1..Len(findings) :
                  Cardinality({m \in 1..Len(results_df) : results_df[m].index = j}) = 1
           /\ \A m \in 1..Len(results_df) :
                  results_df[m].f = findings[results_df[m].index]
           /\ \A a, b \in 1..Len(results_df) :
                  a < b => priority_map(results_df[a].f.Priority)
                               <= priority_map(results_df[b].f.Priority)

C9_Witness ==
    /\ Sorted
    /\ Len(findings) >= 3
    /\ \E a, b \in 1..Len(findings) :
           /\ a < b
           /\ findings[a].Keyword = findings[b].Keyword
           /\ findings[a].Priority = "MED"
           /\ findings[b].Priority = "HIGH"
    /\ results_df[1].index # 1

NoCompetitorEntry ==
    \A j \in 1..Len(competitor_names) : competitor_names[j] \in {",", " "}

\* C10: with no non-blank entry in competitor_names no row gets a Competitor
\* Ego Waste finding, and the competitor list never holds an empty name.
C10_BlankCompetitorsNeverMatch ==
    /\ NoCompetitorEntry
            => \A j \in 1..Len(findings) : findings[j].Issue # "Competitor Ego Waste"
    /\ \A j \in 1..Len(competitors) : competitors[j] # <<>>

C10_Witness ==
    /\ competitor_names = <<",", " ">>
    /\ pc = "done"
    /\ \E j \in 1..Len(findings) : findings[j].Issue = "Cash Incinerator"

====
